---- MODULE Spec2Model ----
(***************************************************************************)
(* The create-project endpoint of src/index.ts: the three request adapters *)
(* entityAs, headerValueByName and completeAsJson, the domain operation    *)
(* createProject, and their composition on POST /.                         *)
(*                                                                         *)
(* JavaScript strings are sequences of one-character strings, so that      *)
(* trimming and the UUID format are computed and not assumed.  JSON values *)
(* are tagged records: [type |-> "string", str |-> s], [type |-> "number", *)
(* num |-> n], [type |-> "array", items |-> xs], [type |-> "object",       *)
(* fields |-> f], and undefined is [type |-> "undefined"], which is also   *)
(* the value of a closure variable not yet bound.                          *)
(***************************************************************************)
EXTENDS Integers, Sequences, FiniteSets, TLC

VARIABLES pc, req, res, request, token, userId, response, ev, calls

vars == <<pc, req, res, request, token, userId, response, ev, calls>>

(***************************************************************************)
(* Bounds of the explored inputs.                                          *)
(***************************************************************************)
MaxNameLen == 2
RandScale == 10

(***************************************************************************)
(* Program constants.                                                      *)
(***************************************************************************)
BadRequest == 400
CreatedStatus == 201
NotFoundStatus == 404
\* rand < 0.3, in units of 1/RandScale
NotFoundBelow == 3
\* z.string().trim().min(1)
MinNameLen == 1

(***************************************************************************)
(* Strings.                                                                *)
(***************************************************************************)
WhiteSpace == {" "}
NameChars == {" ", "a", "b"}
HexDigits == {"0", "1", "2", "3", "4", "5", "6", "7", "8", "9", "a", "b", "c", "d", "e", "f", "A", "B", "C", "D", "E", "F"}

Str(s) == [type |-> "string", str |-> s]
Num(n) == [type |-> "number", num |-> n]
Arr(xs) == [type |-> "array", items |-> xs]
Obj(f) == [type |-> "object", fields |-> f]

RECURSIVE TrimStart(_)
TrimStart(s) ==
    IF s # <<>> /\ Head(s) \in WhiteSpace THEN TrimStart(Tail(s)) ELSE s

RECURSIVE TrimEnd(_)
TrimEnd(s) ==
    IF s # <<>> /\ s[Len(s)] \in WhiteSpace THEN TrimEnd(SubSeq(s, 1, Len(s) - 1)) ELSE s

\* a trim that forgets the end of the string
TrimStartOnly(s) == TrimStart(s)

\* String.prototype.trim, as z.string().trim() applies it
Trim(s) == TrimEnd(TrimStart(s))

\* the 8-4-4-4-12 hexadecimal form z.string().uuid() accepts
IsUuid(s) ==
    /\ Len(s) = 36
    /\ \A i \in 1..36 :
          IF i \in {9, 14, 19, 24} THEN s[i] = "-" ELSE s[i] \in HexDigits

UserA == <<"3", "f", "a", "8", "5", "f", "6", "4", "-", "5", "7", "1", "7", "-", "4", "5", "6", "2", "-", "b", "3", "f", "c", "-", "2", "c", "9", "6", "3", "f", "6", "6", "a", "f", "a", "6">>
UserB == <<"0", "B", "6", "F", "1", "C", "1", "E", "-", "8", "D", "5", "A", "-", "4", "F", "0", "E", "-", "9", "A", "4", "4", "-", "7", "D", "1", "C", "2", "B", "3", "A", "4", "F", "5", "0">>
BadLen == <<"3", "f", "a", "8", "5", "f", "6", "4", "-", "5", "7", "1", "7">>
BadHex == <<"3", "f", "a", "8", "5", "f", "6", "4", "-", "5", "7", "1", "7", "-", "4", "5", "6", "2", "-", "b", "3", "f", "c", "-", "2", "c", "9", "6", "3", "f", "6", "6", "a", "f", "a", "g">>
BadDash == <<"3", "f", "a", "8", "5", "f", "6", "4", "-", "5", "7", "1", "7", "-", "4", "5", "6", "2", "-", "b", "3", "f", "c", "2", "-", "c", "9", "6", "3", "f", "6", "6", "a", "f", "a", "6">>
IdA == <<"9", "b", "2", "e", "4", "d", "6", "a", "-", "1", "c", "3", "f", "-", "4", "a", "5", "b", "-", "8", "c", "7", "d", "-", "0", "e", "1", "f", "2", "a", "3", "b", "4", "c", "5", "d">>
IdB == <<"f", "4", "7", "a", "c", "1", "0", "b", "-", "5", "8", "c", "c", "-", "4", "3", "7", "2", "-", "a", "5", "6", "7", "-", "0", "e", "0", "2", "b", "2", "c", "3", "d", "4", "7", "9">>

\* the identifiers v4() can return, cut down to two
V4Values == {IdA, IdB}

(***************************************************************************)
(* Requests the route can receive.  express.json() hands the handler a     *)
(* JSON object or array as req.body; node lower-cases header names.        *)
(***************************************************************************)
Undefined == [type |-> "undefined"]

Names == UNION {[1..k -> NameChars] : k \in 0..MaxNameLen}

ShapeKeys == {"name"}
ExtraKeys == {"id", "userId", "extra"}

ExtraValue(k) ==
    CASE k = "id" -> Str(BadLen)
      [] k = "userId" -> Str(UserB)
      [] OTHER -> Num(1)

NameValues == {Undefined, Num(7)} \cup {Str(s) : s \in Names}

ObjectBody(nv, extras) ==
    Obj([k \in extras \cup (IF nv = Undefined THEN {} ELSE {"name"}) |->
            IF k = "name" THEN nv ELSE ExtraValue(k)])

Bodies == {Arr(<<>>)} \cup {ObjectBody(nv, extras) : nv \in NameValues, extras \in SUBSET ExtraKeys}

AuthorizationValues ==
    {Undefined, Str(UserA), Str(UserB), Str(<<>>), Str(BadLen), Str(BadHex), Str(BadDash), Arr(<<UserA, UserA>>)}

Headers(auth) ==
    [k \in {"content-type"} \cup (IF auth = Undefined THEN {} ELSE {"authorization"}) |->
        IF k = "authorization" THEN auth ELSE Str(<<"j">>)]

\* a property read: obj[k], undefined when the key is absent
Field(f, k) == IF k \in DOMAIN f THEN f[k] ELSE Undefined

(***************************************************************************)
(* zod.                                                                    *)
(***************************************************************************)
InvalidType(expected, received, path) ==
    [code |-> "invalid_type", expected |-> expected, received |-> received, path |-> path]

TooSmall(minimum, path) ==
    [code |-> "too_small", minimum |-> minimum, path |-> path]

ParseOk(v) == [success |-> TRUE, data |-> v]
ParseFail(issues) == [success |-> FALSE, error |-> [name |-> "ZodError", issues |-> issues]]

\* z.string().min(1): the length is checked without trimming
projectNameFormatNoTrim(v, path) ==
    IF v.type # "string" THEN ParseFail(<<InvalidType("string", v.type, path)>>)
    ELSE IF Len(v.str) < MinNameLen THEN ParseFail(<<TooSmall(MinNameLen, path)>>)
    ELSE ParseOk(v)

\* projectNameFormat = z.string().trim().min(1), at the given path
projectNameFormat(v, path) ==
    IF v.type # "string" THEN ParseFail(<<InvalidType("string", v.type, path)>>)
    ELSE LET t == Trim(v.str)
         IN  IF Len(t) < MinNameLen THEN ParseFail(<<TooSmall(MinNameLen, path)>>)
             ELSE ParseOk(Str(t))

\* a parse that accepts every value
uuidFormatAcceptAll(v) == ParseOk(v)

\* a parse that unwraps a repeated header to its first value
uuidFormatFirstOfArray(v) ==
    IF v.type = "array" /\ v.items # <<>> THEN ParseOk(Str(v.items[1]))
    ELSE IF v.type # "string" \/ ~IsUuid(v.str) THEN ParseFail(<<InvalidType("string", v.type, <<>>)>>)
    ELSE ParseOk(v)

\* userIdFormat and projectIdFormat = z.string().uuid()
uuidFormat(v) ==
    IF v.type # "string" THEN ParseFail(<<InvalidType("string", v.type, <<>>)>>)
    ELSE IF ~IsUuid(v.str) THEN ParseFail(<<[code |-> "invalid_string", validation |-> "uuid", path |-> <<>>]>>)
    ELSE ParseOk(v)

\* a z.object(...).passthrough(): unknown keys are kept
ObjectDataPassthrough(fields, name) ==
    [k \in DOMAIN fields \cup ShapeKeys |-> IF k \in ShapeKeys THEN name ELSE fields[k]]

\* the output of a z.object: the declared keys only, unknown keys stripped
ObjectData(fields, name) == [k \in ShapeKeys |-> name]

\* CreateProjectRequest.safeParse(body)
CreateProjectRequest(body) ==
    IF body.type # "object" THEN ParseFail(<<InvalidType("object", body.type, <<>>)>>)
    ELSE LET n == projectNameFormat(Field(body.fields, "name"), <<"name">>)
         IN  IF n.success THEN ParseOk(ObjectData(body.fields, n.data))
             ELSE n

JSONStringify(v) == [type |-> "json-text", of |-> v]

Text(parts) == [type |-> "text", parts |-> parts]

(***************************************************************************)
(* The adapters' pure parts.                                               *)
(***************************************************************************)
ToLowerCase(name) == IF name = "Authorization" THEN "authorization" ELSE name

\* a message that leaves the header's name out
NoHeaderMessageUnnamed(name) == [type |-> "text", parts |-> <<"No header ">>]

\* `No header ${name}`
NoHeaderMessage(name) == Text(<<"No header ", name>>)

HeaderName == "Authorization"

\* {...request, userId: userId, id: id}
Spread(r, uid, id) ==
    [k \in DOMAIN r \cup {"userId", "id"} |->
        CASE k = "id" -> id
          [] k = "userId" -> uid
          [] OTHER -> r[k]]

\* createProject, given the draw of Math.random() (in units of 1/RandScale)
\* and the identifier v4() returns
createProject(uid, r, rand, fresh) ==
    IF rand < NotFoundBelow
    THEN [type |-> "UserNotFound", userId |-> uid]
    ELSE [type |-> "Created", project |-> Obj(Spread(r, uid, uuidFormat(Str(fresh)).data))]

\* a switch whose arms carry each other's status
OutcomeToHttpSwapped(r) ==
    CASE r.type = "Created" -> [code |-> NotFoundStatus, payload |-> r.project]
      [] r.type = "UserNotFound" -> [code |-> CreatedStatus, payload |-> Text(<<"Sry, no user found">>)]
      [] OTHER -> Undefined

\* the switch of the thunk: the pair the thunk returns
OutcomeToHttp(r) ==
    CASE r.type = "Created" -> [code |-> CreatedStatus, payload |-> r.project]
      [] r.type = "UserNotFound" -> [code |-> NotFoundStatus, payload |-> Text(<<"Sry, no user found">>)]
      [] OTHER -> Undefined

\* the adapters nested with the header lookup outermost
ContinuationHeaderFirst(stage) ==
    CASE stage = "route" -> "headerValueByName"
      [] stage = "headerValueByName" -> "entityAs"
      [] stage = "entityAs" -> "completeAsJson"

\* the order in which app.post('/') nests the adapters
Continuation(stage) ==
    CASE stage = "route" -> "entityAs"
      [] stage = "entityAs" -> "headerValueByName"
      [] stage = "headerValueByName" -> "completeAsJson"

\* res.status(code); res.send(body)
Respond(r, code, body) ==
    [status |-> Append(r.status, code), sent |-> Append(r.sent, body)]

NoResponse == [status |-> <<>>, sent |-> <<>>]

(***************************************************************************)
(* The server.                                                             *)
(***************************************************************************)
Init ==
    /\ pc = "idle"
    /\ req = Undefined
    /\ res = NoResponse
    /\ request = Undefined
    /\ token = Undefined
    /\ userId = Undefined
    /\ response = Undefined
    /\ ev = Undefined
    /\ calls = <<>>

\* a POST / arrives; the previous request, if any, has ended
Receive ==
    /\ pc \in {"idle", "done", "unhandled"}
    /\ \E body \in Bodies, auth \in AuthorizationValues :
          req' = [body |-> body, headers |-> Headers(auth)]
    /\ res' = NoResponse
    /\ request' = Undefined
    /\ token' = Undefined
    /\ userId' = Undefined
    /\ response' = Undefined
    /\ ev' = Undefined
    /\ calls' = <<>>
    /\ pc' = Continuation("route")

\* entityAs(CreateProjectRequest, ...)
EntityAs ==
    /\ pc = "entityAs"
    /\ calls' = Append(calls, "entityAs")
    /\ LET o == CreateProjectRequest(req.body)
       IN  IF o.success
           THEN /\ request' = o.data
                /\ pc' = Continuation("entityAs")
                /\ res' = res
           ELSE /\ res' = Respond(res, BadRequest, JSONStringify(o.error))
                /\ pc' = "done"
                /\ request' = request
    /\ UNCHANGED <<req, token, userId, response, ev>>

\* headerValueByName without the return after res.send
HeaderValueByNameNoReturn ==
    /\ pc = "headerValueByName"
    /\ calls' = Append(calls, "headerValueByName")
    /\ LET value == Field(req.headers, ToLowerCase(HeaderName))
       IN  /\ res' = IF value = Undefined
                     THEN Respond(res, BadRequest, NoHeaderMessage(HeaderName))
                     ELSE res
           /\ token' = value
           /\ pc' = Continuation("headerValueByName")
    /\ UNCHANGED <<req, request, userId, response, ev>>

\* headerValueByName("Authorization", ...)
HeaderValueByName ==
    /\ pc = "headerValueByName"
    /\ calls' = Append(calls, "headerValueByName")
    /\ LET value == Field(req.headers, ToLowerCase(HeaderName))
       IN  IF value = Undefined
           THEN /\ res' = Respond(res, BadRequest, NoHeaderMessage(HeaderName))
                /\ pc' = "done"
                /\ token' = token
           ELSE /\ token' = value
                /\ pc' = Continuation("headerValueByName")
                /\ res' = res
    /\ UNCHANGED <<req, request, userId, response, ev>>

\* completeAsJson: const ev = result()
CompleteAsJson ==
    /\ pc = "completeAsJson"
    /\ calls' = Append(calls, "completeAsJson")
    /\ pc' = "thunk"
    /\ UNCHANGED <<req, res, request, token, userId, response, ev>>

\* the thunk: userIdFormat.parse(token), which throws on a failure
ThunkParse ==
    /\ pc = "thunk"
    /\ calls' = Append(calls, "thunk")
    /\ LET p == uuidFormat(token)
       IN  IF p.success
           THEN /\ userId' = p.data
                /\ pc' = "createProject"
           ELSE /\ userId' = userId
                /\ pc' = "unhandled"
    /\ UNCHANGED <<req, res, request, token, response, ev>>

\* the thunk: createProject(userId, request)
CreateProject ==
    /\ pc = "createProject"
    /\ calls' = Append(calls, "createProject")
    /\ \E rand \in 0..(RandScale - 1), fresh \in V4Values :
          response' = createProject(userId, request, rand, fresh)
    /\ pc' = "switch"
    /\ UNCHANGED <<req, res, request, token, userId, ev>>

\* the thunk: switch (response.type)
ThunkSwitch ==
    /\ pc = "switch"
    /\ ev' = OutcomeToHttp(response)
    /\ pc' = "write"
    /\ UNCHANGED <<req, res, request, token, userId, response, calls>>

\* completeAsJson: res.status(ev[0]); res.send(ev[1])
CompleteAsJsonWrite ==
    /\ pc = "write"
    /\ IF ev = Undefined
       THEN /\ pc' = "unhandled"
            /\ res' = res
       ELSE /\ res' = Respond(res, ev.code, ev.payload)
            /\ pc' = "done"
    /\ UNCHANGED <<req, request, token, userId, response, ev, calls>>

Next ==
    \/ Receive
    \/ EntityAs
    \/ HeaderValueByName
    \/ CompleteAsJson
    \/ ThunkParse
    \/ CreateProject
    \/ ThunkSwitch
    \/ CompleteAsJsonWrite

Spec == Init /\ [][Next]_vars

TypeOK ==
    /\ pc \in {"idle", "entityAs", "headerValueByName", "completeAsJson", "thunk", "createProject", "switch", "write", "done", "unhandled"}
    /\ Len(res.sent) = Len(res.status)

(***************************************************************************)
(* What the claims speak of, read off the request and the response and not *)
(* off the adapters' definitions.                                          *)
(***************************************************************************)
InFlight == pc # "idle"
Ended == pc \in {"done", "unhandled"}

IsObjectBody == InFlight /\ req.body.type = "object"
SubmittedName == Field(req.body.fields, "name")
IsBlank(s) == \A i \in 1..Len(s) : s[i] \in WhiteSpace

\* the body is an object whose name is a string with a non-blank character
WellFormedBody == IsObjectBody /\ SubmittedName.type = "string" /\ ~IsBlank(SubmittedName.str)

\* the body is an object whose name is missing, not a string, empty or blank
BadNameBody == IsObjectBody /\ (SubmittedName.type = "string" => IsBlank(SubmittedName.str))

HeaderPresent == InFlight /\ "authorization" \in DOMAIN req.headers
Authorization == req.headers["authorization"]
UuidHeader == HeaderPresent /\ Authorization.type = "string" /\ IsUuid(Authorization.str)

Count(seq, x) == Cardinality({i \in 1..Len(seq) : seq[i] = x})
Called(stage) == \E i \in 1..Len(calls) : calls[i] = stage
IsPrefix(a, b) == Len(a) <= Len(b) /\ \A i \in 1..Len(a) : a[i] = b[i]

NoHeaderAuthorization == [type |-> "text", parts |-> <<"No header ", "Authorization">>]
SryNoUserFound == [type |-> "text", parts |-> <<"Sry, no user found">>]

\* the one body written is the serialised validation failure
ValidationFailureSent ==
    /\ Len(res.sent) = 1
    /\ res.sent[1].type = "json-text"
    /\ res.sent[1].of.issues # <<>>

NameIssueSent ==
    /\ ValidationFailureSent
    /\ \E i \in 1..Len(res.sent[1].of.issues) : res.sent[1].of.issues[i].path = <<"name">>

\* t is s without its leading and trailing white space
IsTrimOf(t, s) ==
    /\ \E i \in 0..Len(s), j \in 0..Len(s) :
          /\ i + j <= Len(s)
          /\ t = SubSeq(s, i + 1, Len(s) - j)
          /\ \A k \in 1..i : s[k] \in WhiteSpace
          /\ \A k \in (Len(s) - j + 1)..Len(s) : s[k] \in WhiteSpace
    /\ t # <<>> => (t[1] \notin WhiteSpace /\ t[Len(t)] \notin WhiteSpace)

CreatedReturned == response.type = "Created"
UserNotFoundReturned == response.type = "UserNotFound"

\* a 201 whose body is an object
CreatedSent == res.status = <<CreatedStatus>> /\ Len(res.sent) = 1 /\ res.sent[1].type = "object"

StageOrder == <<"entityAs", "headerValueByName", "completeAsJson", "thunk", "createProject">>

(***************************************************************************)
(* C1, as stated: every request without an Authorization header, whatever  *)
(* its body, ends with status 400 and the body "No header Authorization".  *)
(***************************************************************************)
C1_AsStated ==
    (Ended /\ ~HeaderPresent) =>
        (res.status = <<BadRequest>> /\ res.sent = <<NoHeaderAuthorization>>)

(***************************************************************************)
(* C1, amended: a request without an Authorization header ends with status *)
(* 400; its body is "No header Authorization" when the request body passes *)
(* validation, and the validation failure when it does not.                *)
(***************************************************************************)
C1_MissingHeader ==
    (Ended /\ ~HeaderPresent) =>
        /\ pc = "done"
        /\ res.status = <<BadRequest>>
        /\ WellFormedBody => res.sent = <<NoHeaderAuthorization>>
        /\ ~WellFormedBody => ValidationFailureSent

C1_Witness ==
    /\ pc = "done"
    /\ ~HeaderPresent
    /\ WellFormedBody
    /\ DOMAIN req.body.fields = {"name", "extra"}
    /\ res.sent = <<NoHeaderAuthorization>>

C3_AsStated ==
    (pc = "done" /\ WellFormedBody /\ UuidHeader /\ CreatedReturned) =>
        /\ CreatedSent
        /\ res.sent[1].fields["name"] = SubmittedName
        /\ IsUuid(res.sent[1].fields["id"].str)
        /\ IsUuid(res.sent[1].fields["userId"].str)
        /\ res.sent[1].fields["userId"] = Authorization

(***************************************************************************)
(* C3, amended: as stated, but the body's name is the submitted name       *)
(* without its leading and trailing white space.                           *)
(***************************************************************************)
C3_CreatedBody ==
    (pc = "done" /\ WellFormedBody /\ UuidHeader /\ CreatedReturned) =>
        /\ CreatedSent
        /\ res.sent[1].fields["name"].type = "string"
        /\ IsTrimOf(res.sent[1].fields["name"].str, SubmittedName.str)
        /\ IsUuid(res.sent[1].fields["id"].str)
        /\ IsUuid(res.sent[1].fields["userId"].str)
        /\ res.sent[1].fields["userId"] = Authorization

C3_Witness ==
    /\ pc = "done"
    /\ UuidHeader
    /\ CreatedReturned
    /\ SubmittedName = Str(<<"a", " ">>)
    /\ CreatedSent
    /\ res.sent[1].fields["name"] = Str(<<"a">>)

(***************************************************************************)
(* C4: when createProject returned UserNotFound the response is 404 with   *)
(* exactly "Sry, no user found"; a 404 is written only after UserNotFound  *)
(* and a 201 only after Created; the switch yields a pair for every        *)
(* outcome, so a request in which createProject returned ends written.     *)
(***************************************************************************)
C4_OutcomeMapping ==
    /\ (pc = "done" /\ UserNotFoundReturned) =>
          (res.status = <<NotFoundStatus>> /\ res.sent = <<SryNoUserFound>>)
    /\ (pc = "done" /\ CreatedReturned) => CreatedSent
    /\ Count(res.status, NotFoundStatus) > 0 => UserNotFoundReturned
    /\ Count(res.status, CreatedStatus) > 0 => CreatedReturned
    /\ pc = "write" => ev # Undefined
    /\ response # Undefined => pc \in {"switch", "write", "done"}

C4_Witness ==
    /\ pc = "done"
    /\ UserNotFoundReturned
    /\ response.userId = Str(UserA)
    /\ res.sent = <<SryNoUserFound>>

(***************************************************************************)
(* C5: createProject is invoked only for a request whose body is well      *)
(* formed, whose Authorization header is present and whose header value is *)
(* a UUID, and at most once per request.                                   *)
(***************************************************************************)
C5_GuardedInvocation ==
    /\ Count(calls, "createProject") <= 1
    /\ Called("createProject") => (WellFormedBody /\ HeaderPresent /\ UuidHeader)
    /\ (Ended /\ ~(WellFormedBody /\ UuidHeader)) => response = Undefined

C5_Witness ==
    /\ Ended
    /\ WellFormedBody
    /\ HeaderPresent
    /\ ~UuidHeader
    /\ Authorization = Str(BadHex)
    /\ ~Called("createProject")
    /\ Called("thunk")

(***************************************************************************)
(* C6: with a well-formed body and an Authorization value that is not a    *)
(* UUID (a repeated header's sequence included), the failure is raised in  *)
(* the thunk and caught by no adapter: no status is set, no body written,  *)
(* createProject is not invoked, and the request ends unhandled.           *)
(***************************************************************************)
C6_UnguardedParse ==
    (InFlight /\ WellFormedBody /\ HeaderPresent /\ ~UuidHeader) =>
        /\ res = NoResponse
        /\ ~Called("createProject")
        /\ pc # "done"
        /\ Called("thunk") => (pc = "unhandled" /\ calls[Len(calls)] = "thunk")

C6_Witness ==
    /\ pc = "unhandled"
    /\ WellFormedBody
    /\ HeaderPresent
    /\ Authorization = Arr(<<UserA, UserA>>)
    /\ res = NoResponse
    /\ calls[Len(calls)] = "thunk"

(***************************************************************************)
(* C7: a request's response is written at most once over all adapters, and *)
(* exactly once when the request ends at a validation failure or after the *)
(* thunk returned; completeAsJson invokes its thunk once; once a response  *)
(* is written no adapter is left to run.                                   *)
(***************************************************************************)
C7_WrittenOnce ==
    /\ Len(res.sent) <= 1
    /\ Len(res.status) <= 1
    /\ pc = "done" => (Len(res.sent) = 1 /\ Len(res.status) = 1)
    /\ ev # Undefined /\ pc \notin {"write"} => Len(res.sent) = 1
    /\ Count(calls, "thunk") <= 1
    /\ Count(calls, "completeAsJson") <= 1
    /\ (Called("completeAsJson") /\ pc # "thunk") => Count(calls, "thunk") = 1
    /\ Len(res.sent) >= 1 => pc = "done"

C7_Witness ==
    /\ pc = "done"
    /\ ~HeaderPresent
    /\ Len(res.sent) = 1
    /\ calls = <<"entityAs", "headerValueByName">>

(***************************************************************************)
(* C9: the stages of a request run in the order entityAs,                  *)
(* headerValueByName, completeAsJson, thunk, createProject; the header is  *)
(* looked up only after the body validated and createProject is invoked    *)
(* only after the header was found; an ended request either ran every      *)
(* stage or stopped at the first stage that failed.                        *)
(***************************************************************************)
C9_StageOrder ==
    /\ IsPrefix(calls, StageOrder)
    /\ Called("headerValueByName") => (WellFormedBody /\ request # Undefined)
    /\ Called("createProject") => (HeaderPresent /\ token # Undefined)
    /\ Ended =>
          \/ Len(calls) = 1 /\ ~WellFormedBody /\ pc = "done"
          \/ Len(calls) = 2 /\ WellFormedBody /\ ~HeaderPresent /\ pc = "done"
          \/ Len(calls) = 4 /\ WellFormedBody /\ HeaderPresent /\ ~UuidHeader /\ pc = "unhandled"
          \/ calls = StageOrder /\ WellFormedBody /\ UuidHeader /\ pc = "done"

C9_Witness ==
    /\ pc = "done"
    /\ calls = StageOrder
    /\ Len(res.sent) = 1

(***************************************************************************)
(* C10: a body with a valid name and undeclared fields is accepted, and    *)
(* the undeclared fields are dropped: a 201 body has exactly the fields    *)
(* id, userId and name, id being one of the generated identifiers and      *)
(* userId the header value, whatever id or userId the body carried.        *)
(***************************************************************************)
C10_ExtraFieldsIgnored ==
    /\ (Ended /\ WellFormedBody) => ~ValidationFailureSent
    /\ (InFlight /\ WellFormedBody /\ Called("entityAs")) => DOMAIN request = {"name"}
    /\ (pc = "done" /\ CreatedReturned) =>
          /\ CreatedSent
          /\ DOMAIN res.sent[1].fields = {"id", "userId", "name"}
          /\ res.sent[1].fields["id"].str \in V4Values
          /\ res.sent[1].fields["userId"] = Authorization

C10_Witness ==
    /\ pc = "done"
    /\ CreatedReturned
    /\ DOMAIN req.body.fields = {"name", "id", "userId", "extra"}
    /\ Authorization = Str(UserA)
    /\ req.body.fields["userId"] # Authorization
    /\ res.sent[1].fields["id"] # req.body.fields["id"]
    /\ DOMAIN res.sent[1].fields = {"id", "userId", "name"}

====
